---- MODULE Spec2Model ----
(***************************************************************************)
(* Model of RandomGenerationAlgorithm                                      *)
(* (src/pynguin/generation/algorithms/randoopy/algorithm.py): the          *)
(* time-bounded random generation loop, one step of the adapted Randoop    *)
(* algorithm, the sampler, the operation selector and the extender.        *)
(***************************************************************************)
EXTENDS Integers, Sequences, FiniteSets, TLC

VARIABLES
    modules,                \* argument of generate_sequences
    time_limit,             \* argument of generate_sequences
    max_sequence_length,    \* self._configuration.max_sequence_length
    max_sequences_combined, \* self._configuration.max_sequences_combined
    executor,               \* how self._executor answers
    test_cases,             \* the passing pool (a list of test cases)
    failing_test_cases,     \* the failing pool (a list of test cases)
    start_time,             \* datetime.datetime.now() at line 65
    execution_counter,      \* number of loop bodies entered
    iterations_started,     \* number of times the while condition held
    executor_calls,         \* number of calls of self._executor.execute
    objects_under_test,     \* result of _find_objects_under_test
    now,                    \* the wall clock
    pc,                     \* position of generate_sequences
    last                    \* what the most recent loop body did

vars == <<modules, time_limit, max_sequence_length, max_sequences_combined,
          executor, test_cases, failing_test_cases, start_time,
          execution_counter, iterations_started, executor_calls,
          objects_under_test, now, pc, last>>

config == <<modules, time_limit, max_sequence_length, max_sequences_combined,
            executor>>

-----------------------------------------------------------------------------
(* Bounds of the model *)

MaxIterations == 3

MaxTimeLimit == 2

-----------------------------------------------------------------------------
(* The targets the model is run on.  A module is known by its name; what   *)
(* the reflective calls return for each object is tabulated below.         *)

ModuleLists ==
    { <<>>, <<"mod_a">>, <<"mod_priv">>, <<"mod_a", "mod_bad">> }

\* The readings of the clock at line 65
StartTimes == {0, 1}

LengthCaps == {0, 2}

CombinedCaps == {0, 1, 2}

\* The executors the model is run with: one that answers either way, and
\* one that reports a violation for every test case.
Executors == {"any", "always_violation"}

\* get_members_from_module(module): the (name, member) pairs of a module;
\* enumerating "mod_bad" is impossible.
DiscoveryFails(module) == module = "mod_bad"

get_members_from_module(module) ==
    CASE module = "mod_a"    -> << <<"C", "C">>, <<"f", "f">> >>
      [] module = "mod_priv" -> << <<"_h", "_h">> >>
      [] OTHER               -> <<>>

\* The attributes of an object as inspect.getmembers walks them:
\* <<name, __name__ of the value, kind of the value>>.  A name is the list of
\* its characters.  A value of kind "faulty" makes the inspect predicates
\* raise.
Attributes(object) ==
    CASE object = "mod_a"    ->
            << << <<"C">>, "C", "class" >>,
               << <<"V", "E", "R">>, "int", "data" >>,
               << <<"_", "g">>, "_g", "function" >>,
               << <<"i", "s", "i">>, "_recording_isinstance", "function" >> >>
      [] object = "C"        ->
            << << <<"_", "_", "i", "n", "i", "t", "_", "_">>, "__init__", "function" >>,
               << <<"m">>, "m", "function" >> >>
      [] object = "f"        ->
            << << <<"_", "_", "c", "l", "a", "s", "s", "_", "_">>, "function", "class" >>,
               << <<"p", "r", "o", "x", "y">>, "proxy", "faulty" >> >>
      [] object = "mod_priv" ->
            << << <<"_", "h">>, "_h", "function" >> >>
      [] object = "_h"       ->
            << << <<"_", "_", "c", "l", "a", "s", "s", "_", "_">>, "function", "class" >> >>
      [] OTHER               -> <<>>

\* inspect.signature(callable_).parameters without "self": the annotations.
signature(callable_) ==
    CASE callable_ = "m" -> << "int" >>
      [] OTHER           -> <<>>

\* The type of the value a statement calling callable_ produces.
ResultType(callable_) ==
    CASE callable_ = "m" -> "int"
      [] OTHER           -> callable_

\* The primitive values the value generation produces afresh.
FreshValues(type_) == IF type_ = "int" THEN {0} ELSE {}

-----------------------------------------------------------------------------
(* Helpers on lists *)

Range(s) == { s[i] : i \in DOMAIN s }

Min(a, b) == IF a < b THEN a ELSE b

IsPrefix(s, t) ==
    /\ Len(s) <= Len(t)
    /\ \A i \in DOMAIN s : s[i] = t[i]

\* The lists of n pairwise different elements of S
InjSeqs(S, n) ==
    { s \in [1..n -> S] : \A i, j \in 1..n : i # j => s[i] # s[j] }

-----------------------------------------------------------------------------
(* Statements and test cases.  A statement calls one callable with a list  *)
(* of argument values; a value is a fresh primitive ("fresh"), the return  *)
(* value of an earlier statement of the same test case ("ref", idx is the  *)
(* statement's position), or the return value of statement idx of the      *)
(* pool's test case seq, which is not part of this test case ("foreign").  *)

Fresh(v) == [kind |-> "fresh", seq |-> 0, idx |-> 0, val |-> v]

Ref(i) == [kind |-> "ref", seq |-> 0, idx |-> i, val |-> 0]

Foreign(k, j) == [kind |-> "foreign", seq |-> k, idx |-> j, val |-> 0]

Statement(callable_, args) == [op |-> callable_, args |-> args]

\* What the loop body did: outcome is "none" before the first body, then
\* "IndexError" (propagated), "GenerationException" (caught), "duplicate"
\* (candidate discarded) or "executed" (candidate executed and classified).
\* object is the object _random_public_method chose, tests the positions of
\* the sampled test cases in the passing pool.
LastOf(outcome, error, object, method, tests, values, candidate, violated) ==
    [outcome |-> outcome, error |-> error, object |-> object,
     method |-> method, tests |-> tests, values |-> values,
     candidate |-> candidate, violated |-> violated]

NoLast == LastOf("none", "", "", "", <<>>, <<>>, <<>>, FALSE)

-----------------------------------------------------------------------------
(* _find_objects_under_test *)

RECURSIVE MembersOf(_)
MembersOf(types) ==
    IF types = <<>> THEN <<>>
    ELSE LET members == get_members_from_module(Head(types))
         IN  [i \in DOMAIN members |-> members[i][2]] \o MembersOf(Tail(types))

find_objects_under_test(types) == types \o MembersOf(types)

find_objects_under_test_raises(types) ==
    \E i \in DOMAIN types : DiscoveryFails(types[i])

-----------------------------------------------------------------------------
(* _random_public_method *)

\* inspect_member: raises GenerationException for a value the inspect
\* predicates fail on, else tells whether it is a class, method or function.
inspect_member_raises(attribute) == attribute[3] = "faulty"

inspect_member(attribute) == attribute[3] \in {"class", "method", "function"}

\* IsPublicMember without the test for the recording artefact
IsPublicMember_NameOnly(m) == ~ (m[1][1] = "_")

IsPublicMember(m) ==
    /\ ~ (m[1][1] = "_")
    /\ ~ (m[2] = "_recording_isinstance")

\* The outcomes of _random_public_method: an error, or the chosen method.
SelectorResult(error, object, method) ==
    [error |-> error, object |-> object, method |-> method]

public_members(object_under_test) ==
    LET members == SelectSeq(Attributes(object_under_test), inspect_member)
        public  == SelectSeq(members, IsPublicMember)
    IN  [i \in DOMAIN public |-> public[i][2]]

random_public_method_of(object_under_test) ==
    IF \E i \in DOMAIN Attributes(object_under_test) :
            inspect_member_raises(Attributes(object_under_test)[i])
    THEN { SelectorResult("GenerationException: Test member", object_under_test, "") }
    ELSE IF public_members(object_under_test) = <<>>
    THEN { SelectorResult("GenerationException: no public callables", object_under_test, "") }
    ELSE { SelectorResult("", object_under_test, method) :
             method \in Range(public_members(object_under_test)) }

random_public_method(objects) ==
    IF objects = <<>>
    THEN { SelectorResult("IndexError", "", "") }
    ELSE UNION { random_public_method_of(object_under_test) :
                   object_under_test \in Range(objects) }

-----------------------------------------------------------------------------
(* _random_test_cases: the sampled test cases, as the list of their         *)
(* positions in the passing pool.                                          *)

\* selectables admitting test cases of exactly the maximal length
selectables_AtMost(pool) ==
    IF max_sequence_length = 0
    THEN DOMAIN pool
    ELSE { i \in DOMAIN pool : Len(pool[i]) <= max_sequence_length }

selectables(pool) ==
    IF max_sequence_length = 0
    THEN DOMAIN pool
    ELSE { i \in DOMAIN pool : Len(pool[i]) < max_sequence_length }

\* upper_bound letting one test case more than the cap be combined
upper_bound_OffByOne(pool) ==
    IF max_sequences_combined = 0
    THEN Cardinality(selectables(pool))
    ELSE Min(Cardinality(selectables(pool)), max_sequences_combined + 1)

\* upper_bound without the cap on the number of combined test cases
upper_bound_NoCap(pool) == Cardinality(selectables(pool))

upper_bound(pool) ==
    IF max_sequences_combined = 0
    THEN Cardinality(selectables(pool))
    ELSE Min(Cardinality(selectables(pool)), max_sequences_combined)

random_test_cases(pool) ==
    UNION { InjSeqs(selectables(pool), n) : n \in 0..upper_bound(pool) }

-----------------------------------------------------------------------------
(* _random_values and init_value *)

\* init_value(type_, sequences): a fresh primitive of the type, or the
\* return value of a statement of one of the sequences that has the type.
init_value(type_, sequences) ==
    { Fresh(v) : v \in FreshValues(type_) }
    \cup UNION { { Foreign(k, j) :
                      j \in { i \in DOMAIN sequences[k] :
                                ResultType(sequences[k][i].op) = type_ } } :
                    k \in DOMAIN sequences }

RECURSIVE ValuesFor(_, _)
ValuesFor(parameters, sequences) ==
    IF parameters = <<>> THEN { <<>> }
    ELSE { <<value>> \o rest :
             value \in init_value(Head(parameters), sequences),
             rest \in ValuesFor(Tail(parameters), sequences) }

\* _random_values(test_cases, callable_): one value per parameter
random_values(sequences, callable_) ==
    ValuesFor(signature(callable_), sequences)

-----------------------------------------------------------------------------
(* _extend *)

\* The statements of test_case with their references moved by offset
Shifted(test_case, offset) ==
    [i \in DOMAIN test_case |->
        Statement(test_case[i].op,
                  [a \in DOMAIN test_case[i].args |->
                      IF test_case[i].args[a].kind = "ref"
                      THEN Ref(test_case[i].args[a].idx + offset)
                      ELSE test_case[i].args[a]])]

\* DefaultTestCase.append_test_case
append_test_case(new_test, test_case) ==
    new_test \o Shifted(test_case, Len(new_test))

RECURSIVE AppendAll(_, _, _)
AppendAll(new_test, pool, tests) ==
    IF tests = <<>> THEN new_test
    ELSE AppendAll(append_test_case(new_test, pool[Head(tests)]), pool, Tail(tests))

\* Where the statements of the p-th sampled test case start in the new test
RECURSIVE Offset(_, _, _)
Offset(pool, tests, p) ==
    IF p <= 1 THEN 0
    ELSE Offset(pool, tests, p - 1) + Len(pool[tests[p - 1]])

\* The value as the new statement holds it: a reference to a statement of a
\* sampled test case is that statement's copy in the new test; a reference
\* to a statement of any other test case stays a reference to that one.
Bound(pool, tests, value) ==
    IF value.kind = "foreign" /\ \E p \in DOMAIN tests : tests[p] = value.seq
    THEN LET p == CHOOSE q \in DOMAIN tests : tests[q] = value.seq
         IN  Ref(Offset(pool, tests, p) + value.idx)
    ELSE value

\* StatementFactory.create_statement
create_statement(pool, tests, callable_, values) ==
    Statement(callable_, [a \in DOMAIN values |-> Bound(pool, tests, values[a])])

\* extend appending the sampled test cases last to first
extend_ReversedOrder(pool, callable_, tests, values) ==
    Append(AppendAll(<<>>, pool,
                     [p \in DOMAIN tests |-> tests[Len(tests) + 1 - p]]),
           create_statement(pool, tests, callable_, values))

extend(pool, callable_, tests, values) ==
    Append(AppendAll(<<>>, pool, tests),
           create_statement(pool, tests, callable_, values))

-----------------------------------------------------------------------------
(* _generate_sequence: duplicate filter and classification *)

\* Equality of test cases: structural (the statements, their callables and
\* their argument bindings, in order)
TestCaseEquals(a, b) == a = b

\* new_test_case in pool
Contains(pool, new_test_case) ==
    \E i \in DOMAIN pool : TestCaseEquals(pool[i], new_test_case)

\* IsDuplicate with the passing pool left out of the check
IsDuplicate_FailingOnly(new_test_case) ==
    Contains(failing_test_cases, new_test_case)

\* IsDuplicate with the failing pool left out of the check
IsDuplicate_PassingOnly(new_test_case) ==
    Contains(test_cases, new_test_case)

IsDuplicate(new_test_case) ==
    \/ Contains(test_cases, new_test_case)
    \/ Contains(failing_test_cases, new_test_case)

\* classify without the else: a failing test case is kept in both pools
classify_Both(new_test_case, violated) ==
    IF violated
    THEN <<Append(test_cases, new_test_case),
           Append(failing_test_cases, new_test_case)>>
    ELSE <<Append(test_cases, new_test_case), failing_test_cases>>

\* classify without the test of the executor's answer
classify_AllPassing(new_test_case, violated) ==
    <<Append(test_cases, new_test_case), failing_test_cases>>

\* classify with the two branches exchanged
classify_Swapped(new_test_case, violated) ==
    IF violated
    THEN <<Append(test_cases, new_test_case), failing_test_cases>>
    ELSE <<test_cases, Append(failing_test_cases, new_test_case)>>

\* classify inserting at the front of the pool
classify_Prepending(new_test_case, violated) ==
    IF violated
    THEN <<test_cases, <<new_test_case>> \o failing_test_cases>>
    ELSE <<<<new_test_case>> \o test_cases, failing_test_cases>>

\* The two pools after the classification of an executed test case
classify(new_test_case, violated) ==
    IF violated
    THEN <<test_cases, Append(failing_test_cases, new_test_case)>>
    ELSE <<Append(test_cases, new_test_case), failing_test_cases>>

\* self._executor.execute(new_test_case): the answers it can give
execute(new_test_case) ==
    IF executor = "always_violation" THEN {TRUE} ELSE BOOLEAN

-----------------------------------------------------------------------------
(* generate_sequences *)

Init ==
    /\ modules \in ModuleLists
    /\ time_limit \in 0..MaxTimeLimit
    /\ max_sequence_length \in LengthCaps
    /\ max_sequences_combined \in CombinedCaps
    /\ executor \in Executors
    /\ test_cases = <<>>
    /\ failing_test_cases = <<>>
    /\ now \in StartTimes
    /\ start_time = now
    /\ execution_counter = 0
    /\ iterations_started = 0
    /\ executor_calls = 0
    /\ objects_under_test = <<>>
    /\ pc = "Discover"
    /\ last = NoLast

\* The clock advances while generate_sequences runs; its readings past the
\* deadline are not told apart.
Tick ==
    /\ pc \in {"Discover", "Check", "Body"}
    /\ now - start_time < time_limit
    /\ now' = now + 1
    /\ UNCHANGED <<config, test_cases, failing_test_cases, start_time,
                   execution_counter, iterations_started, executor_calls,
                   objects_under_test, pc, last>>

\* Line 68, every module enumerated
FindObjectsUnderTest ==
    /\ pc = "Discover"
    /\ ~ find_objects_under_test_raises(modules)
    /\ objects_under_test' = find_objects_under_test(modules)
    /\ pc' = "Check"
    /\ UNCHANGED <<config, test_cases, failing_test_cases, start_time,
                   execution_counter, iterations_started, executor_calls,
                   now, last>>

\* Line 68, get_members_from_module raises: nothing catches it
FindObjectsUnderTestRaises ==
    /\ pc = "Discover"
    /\ find_objects_under_test_raises(modules)
    /\ pc' = "Aborted"
    /\ UNCHANGED <<config, test_cases, failing_test_cases, start_time,
                   execution_counter, iterations_started, executor_calls,
                   objects_under_test, now, last>>

\* LoopCondition bounding the number of iterations instead of the time
LoopCondition_ByCounter == execution_counter < time_limit

\* The condition of the while loop, line 70
LoopCondition == (now - start_time) < time_limit

LoopEnter ==
    /\ pc = "Check"
    /\ LoopCondition
    /\ execution_counter < MaxIterations
    /\ pc' = "Body"
    /\ iterations_started' = iterations_started + 1
    /\ UNCHANGED <<config, test_cases, failing_test_cases, start_time,
                   execution_counter, executor_calls, objects_under_test,
                   now, last>>

\* The loop ends and both pools are returned, lines 81-86
LoopExit ==
    /\ pc = "Check"
    /\ ~ LoopCondition
    /\ pc' = "Stopped"
    /\ UNCHANGED <<config, test_cases, failing_test_cases, start_time,
                   execution_counter, iterations_started, executor_calls,
                   objects_under_test, now, last>>

\* Loop body: random.choice raises IndexError on an empty list, which is no
\* GenerationException and leaves generate_sequences
BodyIndexError ==
    /\ pc = "Body"
    /\ \E r \in random_public_method(objects_under_test) :
          /\ r.error = "IndexError"
          /\ last' = LastOf("IndexError", r.error, "", "", <<>>, <<>>, <<>>,
                            FALSE)
    /\ execution_counter' = execution_counter + 1
    /\ pc' = "Aborted"
    /\ UNCHANGED <<config, test_cases, failing_test_cases, start_time,
                   iterations_started, executor_calls, objects_under_test,
                   now>>

\* AfterGenerationException without the except clause
AfterGenerationException_Propagates == "Aborted"

\* Where the loop goes on after it caught a GenerationException, lines 76-79
AfterGenerationException == "Check"

\* Loop body: _random_public_method raises GenerationException
BodyGenerationException ==
    /\ pc = "Body"
    /\ \E r \in random_public_method(objects_under_test) :
          /\ r.error \notin {"", "IndexError"}
          /\ last' = LastOf("GenerationException", r.error, r.object, "",
                            <<>>, <<>>, <<>>, FALSE)
    /\ execution_counter' = execution_counter + 1
    /\ pc' = AfterGenerationException
    /\ UNCHANGED <<config, test_cases, failing_test_cases, start_time,
                   iterations_started, executor_calls, objects_under_test,
                   now>>

\* Loop body: the new test case is a duplicate and is discarded, lines 107-109
BodyDuplicate ==
    /\ pc = "Body"
    /\ \E r \in random_public_method(objects_under_test) :
          /\ r.error = ""
          /\ \E tests \in random_test_cases(test_cases) :
             \E values \in random_values(test_cases, r.method) :
                LET new_test_case == extend(test_cases, r.method, tests, values)
                IN  /\ IsDuplicate(new_test_case)
                    /\ last' = LastOf("duplicate", "", r.object, r.method,
                                      tests, values, new_test_case, FALSE)
    /\ execution_counter' = execution_counter + 1
    /\ pc' = "Check"
    /\ UNCHANGED <<config, test_cases, failing_test_cases, start_time,
                   iterations_started, executor_calls, objects_under_test,
                   now>>

\* Loop body: the new test case is executed and classified, lines 111-120
BodyExecute ==
    /\ pc = "Body"
    /\ \E r \in random_public_method(objects_under_test) :
          /\ r.error = ""
          /\ \E tests \in random_test_cases(test_cases) :
             \E values \in random_values(test_cases, r.method) :
                LET new_test_case == extend(test_cases, r.method, tests, values)
                IN  /\ ~ IsDuplicate(new_test_case)
                    /\ \E violated \in execute(new_test_case) :
                       LET pools == classify(new_test_case, violated)
                       IN  /\ test_cases' = pools[1]
                           /\ failing_test_cases' = pools[2]
                           /\ last' = LastOf("executed", "", r.object, r.method,
                                             tests, values, new_test_case,
                                             violated)
    /\ execution_counter' = execution_counter + 1
    /\ pc' = "Check"
    /\ executor_calls' = executor_calls + 1
    /\ UNCHANGED <<config, start_time, iterations_started, objects_under_test,
                   now>>

Next ==
    \/ Tick
    \/ FindObjectsUnderTest
    \/ FindObjectsUnderTestRaises
    \/ LoopEnter
    \/ LoopExit
    \/ BodyIndexError
    \/ BodyGenerationException
    \/ BodyDuplicate
    \/ BodyExecute

Spec == Init /\ [][Next]_vars


-----------------------------------------------------------------------------
(* Properties *)

AllPools == test_cases \o failing_test_cases

Elapsed == now - start_time

PoolsDisjoint ==
    \A i \in DOMAIN test_cases : \A j \in DOMAIN failing_test_cases :
        ~ TestCaseEquals(test_cases[i], failing_test_cases[j])

\* C1: no two test cases of the passing and the failing pool together are
\* structurally equal, neither within one pool nor across the two.
C1_NoDuplicates ==
    \A i, j \in DOMAIN AllPools :
        i # j => ~ TestCaseEquals(AllPools[i], AllPools[j])

\* A candidate equal to a failing test case was discarded, and one equal to
\* a passing test case could be.
C1_Witness ==
    /\ last.outcome = "duplicate"
    /\ Contains(failing_test_cases, last.candidate)
    /\ Len(test_cases) >= 1

\* A step of the loop body that executed its candidate
ExecutedStep ==
    /\ pc = "Body"
    /\ pc' # "Body"
    /\ last'.outcome = "executed"

\* C2: every executed candidate is appended to exactly one pool, the failing
\* pool if the executor reported a violation and the passing pool otherwise,
\* and the two pools are disjoint in every reachable state.
C2_ExactlyOnePool ==
    /\ [][ExecutedStep =>
            IF last'.violated
            THEN /\ failing_test_cases' = Append(failing_test_cases, last'.candidate)
                 /\ test_cases' = test_cases
            ELSE /\ test_cases' = Append(test_cases, last'.candidate)
                 /\ failing_test_cases' = failing_test_cases]_vars
    /\ []PoolsDisjoint

\* Both verdicts have been classified.
C2_Witness ==
    /\ last.outcome = "executed"
    /\ last.violated
    /\ Contains(failing_test_cases, last.candidate)
    /\ Len(test_cases) >= 1

\* C3: every step leaves each pool a prefix of what it is after the step:
\* nothing accepted is removed, changed or moved to the other pool.
C3_PoolsGrow ==
    [][/\ IsPrefix(test_cases, test_cases')
       /\ IsPrefix(failing_test_cases, failing_test_cases')]_vars

\* Both pools were appended to after they held a test case.
C3_Witness ==
    /\ Len(test_cases) >= 2
    /\ Len(failing_test_cases) >= 1
    /\ last.outcome = "executed"

\* The references of a test case all point to its own earlier statements.
WellFormed(test_case) ==
    \A i \in DOMAIN test_case : \A a \in DOMAIN test_case[i].args :
        LET value == test_case[i].args[a]
        IN  /\ value.kind # "foreign"
            /\ (value.kind = "ref" => (1 <= value.idx /\ value.idx < i))

\* C4: in every test case of either pool, the references held by statement
\* i refer to statements of the same test case at positions below i; a
\* reused value never comes from a pool test case that was not sampled.
C4_NoForeignReferences ==
    \A k \in DOMAIN AllPools : WellFormed(AllPools[k])

\* A step of the loop body that caught a GenerationException
GenerationExceptionStep ==
    /\ pc = "Body"
    /\ pc' # "Body"
    /\ last'.outcome = "GenerationException"

\* C5: a GenerationException raised while a candidate is built is caught at
\* the loop: the loop is at its next deadline check, the iteration counter
\* is one more and both pools are as they were.
C5_ExceptionSkipsIteration ==
    [][GenerationExceptionStep =>
        /\ pc' = "Check"
        /\ execution_counter' = execution_counter + 1
        /\ test_cases' = test_cases
        /\ failing_test_cases' = failing_test_cases]_vars

\* After a caught exception the loop entered its next iteration, with
\* pools that were not empty.
C5_Witness ==
    /\ last.outcome = "GenerationException"
    /\ pc = "Body"
    /\ execution_counter >= 2
    /\ Len(test_cases) + Len(failing_test_cases) >= 1

\* C6: no fault raised while a candidate is built leaves generate_sequences:
\* each one crosses the loop boundary as a GenerationException and the loop
\* goes on.
C6_NoFaultAbortsLoop ==
    /\ last.outcome \in {"none", "GenerationException", "duplicate", "executed"}
    /\ (last.outcome # "none" => pc # "Aborted")

\* No object of the catalog has a public callable (the empty catalog too).
CatalogEmptyAfterFiltering ==
    /\ ~ find_objects_under_test_raises(modules)
    /\ \A object \in Range(find_objects_under_test(modules)) :
          random_public_method_of(object) =
            { SelectorResult("GenerationException: no public callables", object, "") }

\* C7: with a catalog that is empty after the non-public members are
\* filtered out, every iteration fails with the no-public-operation error,
\* the loop still ends at the deadline and both pools are returned empty.
\* (That the returned iteration count is positive is left out here: it
\* presupposes a deadline that lets the first iteration start.)
C7_EmptyCatalogRun ==
    CatalogEmptyAfterFiltering =>
        /\ pc # "Aborted"
        /\ (last.outcome # "none" =>
              /\ last.outcome = "GenerationException"
              /\ last.error = "GenerationException: no public callables")
        /\ test_cases = <<>>
        /\ failing_test_cases = <<>>

\* C8: a module that cannot be enumerated does not end the run:
\* generate_sequences still reaches its loop and returns both pools.
C8_DiscoveryFailureIsLocal ==
    find_objects_under_test_raises(modules) => pc # "Aborted"

\* A step that ends the loop
StopStep == pc # "Stopped" /\ pc' = "Stopped"

StopsAtDeadlineCheck ==
    /\ (StopStep => (pc = "Check" /\ Elapsed >= time_limit))
    /\ ((pc = "Check" /\ Elapsed >= time_limit /\ pc' # pc) => pc' = "Stopped")
    /\ ((pc = "Body" /\ pc' # pc) => pc' \in {"Check", "Aborted"})

\* C9: the loop stops only at its deadline check and only when
\* now - start >= limit holds there, whatever the iteration counter is; a
\* check that finds the deadline passed always stops; a deadline passed at
\* the first check means no iteration and two empty pools.
C9_StopsOnlyAtDeadlineCheck ==
    /\ [][StopsAtDeadlineCheck]_vars
    /\ []((pc = "Stopped" /\ execution_counter = 0) =>
             (test_cases = <<>> /\ failing_test_cases = <<>>))

\* The loop stopped after iterations, the last of which ran past the deadline.
C9_Witness ==
    /\ pc = "Stopped"
    /\ execution_counter >= 2
    /\ Len(test_cases) >= 1
    /\ Elapsed >= time_limit

\* C10: generate_sequences always gets to return both pools: wherever it
\* is not stopped it can take a further step (given a clock that advances
\* and collaborators that return).
C10_ReachesStopped == pc = "Stopped" \/ ENABLED Next

-----------------------------------------------------------------------------
(* Properties of the loop body, the sampler, the selector and the extender *)

\* A step that runs one loop body
BodyStep == pc = "Body" /\ pc' # "Body"

\* A step that runs one loop body in which a candidate was built
CandidateStep == BodyStep /\ last'.outcome \in {"duplicate", "executed"}

\* The candidate of the step is equal to a test case of a pool as it was
CandidateInPools ==
    \E k \in DOMAIN AllPools : TestCaseEquals(AllPools[k], last'.candidate)

ExecutedOnceUnlessDuplicate ==
    /\ executor_calls' \in {executor_calls, executor_calls + 1}
    /\ (executor_calls' # executor_calls => BodyStep)
    /\ (CandidateStep =>
          (executor_calls' = executor_calls + 1 <=> ~ CandidateInPools))
    /\ ((CandidateStep /\ CandidateInPools) =>
          /\ last'.outcome = "duplicate"
          /\ pc' = "Check"
          /\ test_cases' = test_cases
          /\ failing_test_cases' = failing_test_cases)

\* C11: the executor is called at most once in an iteration, and exactly
\* when the candidate equals no test case of the passing or failing pool; a
\* duplicate is discarded unexecuted, without an error and with both pools
\* as they were.
C11_ExecutedUnlessDuplicate == [][ExecutedOnceUnlessDuplicate]_vars

\* A duplicate was discarded after two candidates had been executed.
C11_Witness ==
    /\ last.outcome = "duplicate"
    /\ executor_calls = 2
    /\ pc = "Check"

\* The passing test cases short enough to be reused
EligibleCount ==
    Cardinality({ i \in DOMAIN test_cases :
                    max_sequence_length = 0
                    \/ Len(test_cases[i]) < max_sequence_length })

\* What the sample of a step is, against the pools as they were
SampleWithinCaps ==
    CandidateStep =>
        LET tests == last'.tests
        IN  /\ \A p \in DOMAIN tests :
                  /\ tests[p] \in DOMAIN test_cases
                  /\ ~ Contains(failing_test_cases, test_cases[tests[p]])
                  /\ (max_sequence_length # 0 =>
                        Len(test_cases[tests[p]]) < max_sequence_length)
            /\ \A p, q \in DOMAIN tests :
                  p # q => /\ tests[p] # tests[q]
                           /\ ~ TestCaseEquals(test_cases[tests[p]],
                                               test_cases[tests[q]])
            /\ (max_sequences_combined # 0 =>
                  Len(tests) <= max_sequences_combined)
            /\ 0 <= Len(tests)
            /\ Len(tests) <= EligibleCount

\* C12: the sampled test cases are pairwise distinct members of the passing
\* pool, none of the failing pool; each is shorter than max_sequence_length
\* when that is not 0; they are at most max_sequences_combined when that is
\* not 0; their number lies between 0 and the number of eligible test cases,
\* and the empty sample is always possible.
C12_SampleWithinCaps ==
    /\ [][SampleWithinCaps]_vars
    /\ [](<<>> \in random_test_cases(test_cases))

\* One test case was sampled under both caps while the pool held a test
\* case too long to be reused.
C12_Witness ==
    /\ last.outcome = "duplicate"
    /\ max_sequence_length = 2
    /\ max_sequences_combined = 1
    /\ Len(last.tests) = 1
    /\ \E i \in DOMAIN test_cases :
          i \notin Range(last.tests) /\ Len(test_cases[i]) = 2

\* The test case is one statement, or a passing test case accepted before
\* position i followed by one statement.
OnePriorPlusOne(test_case, i) ==
    \/ Len(test_case) = 1
    \/ \E j \in 1..(i - 1) :
          SubSeq(test_case, 1, Len(test_case) - 1) = test_cases[j]

\* C13: with max_sequences_combined = 1 every passing test case was built
\* from at most one earlier passing test case: it is a single new statement,
\* or one earlier passing test case followed by one new statement.
C13_AtMostOneMerged ==
    max_sequences_combined = 1 =>
        /\ \A i \in DOMAIN test_cases : OnePriorPlusOne(test_cases[i], i)
        /\ (last.outcome \in {"duplicate", "executed"} => Len(last.tests) <= 1)

\* Under the cap of one, a passing test case of three statements was built
\* from one of two, itself built from one of one.
C13_Witness ==
    /\ max_sequences_combined = 1
    /\ last.outcome = "executed"
    /\ ~ last.violated
    /\ Len(last.tests) = 1
    /\ Len(last.candidate) = 3

\* C14: with an executor that reports a violation for every test case, the
\* passing pool is empty in every reachable state, the failing pool only
\* grows and no test case is in both pools.
C14_AlwaysViolation ==
    /\ [](executor = "always_violation" =>
             (test_cases = <<>> /\ PoolsDisjoint))
    /\ [][executor = "always_violation" =>
             IsPrefix(failing_test_cases, failing_test_cases')]_vars

\* Two test cases were executed by such an executor and a third candidate,
\* equal to a failing one, was discarded.
C14_Witness ==
    /\ executor = "always_violation"
    /\ Len(failing_test_cases) = 2
    /\ last.outcome = "duplicate"
    /\ executor_calls = 2

\* The loop may run a further iteration from this state.
AnotherIterationPossible == pc = "Check" /\ ENABLED LoopEnter

\* The clock read at the next deadline check is not yet fixed: it may still
\* advance before the check, up to and past the deadline.
ClockMayAdvanceFirst == pc = "Check" /\ ENABLED Tick

\* C15: two runs with the same seed, configuration and collaborators make the
\* same draws and end with the same pools and iteration counter.  Two such runs
\* agree on every draw and outcome of the iterations both perform, so they pass
\* through the same states at the deadline checks; the claim then requires that
\* no such state lets one run stop with the present counter while the other
\* starts a further iteration.
C15_SeedFixesIterationCount ==
    ~(AnotherIterationPossible /\ ClockMayAdvanceFirst)

\* The selector returned a method in the last loop body
SelectorReturned == last.outcome \in {"duplicate", "executed"}

\* The selector chose an owner in the last loop body
OwnerChosen == last.outcome \in {"GenerationException", "duplicate", "executed"}

\* attribute is a callable of its owner that is visible to callers: a class,
\* method or function whose name does not start with the reserved marker and
\* which is not the recording artefact.
PubliclyVisible(attribute) ==
    /\ attribute[3] \in {"class", "method", "function"}
    /\ attribute[1][1] # "_"
    /\ attribute[2] # "_recording_isinstance"

HasPublicOperation(object) ==
    \E i \in DOMAIN Attributes(object) : PubliclyVisible(Attributes(object)[i])

InspectionFaults(object) ==
    \E i \in DOMAIN Attributes(object) : Attributes(object)[i][3] = "faulty"

\* C16: a method the selector returns is a publicly visible member of the one
\* owner it chose from the catalog in that call; when the chosen owner has no
\* such member the selector raises (GenerationException, with the message
\* "no public callables" unless inspecting a member failed first) and returns
\* no method.
C16_SelectorReturnsPublicMember ==
    /\ (SelectorReturned =>
          /\ last.object \in Range(objects_under_test)
          /\ \E i \in DOMAIN Attributes(last.object) :
                /\ PubliclyVisible(Attributes(last.object)[i])
                /\ Attributes(last.object)[i][2] = last.method)
    /\ ((OwnerChosen /\ ~ HasPublicOperation(last.object)) =>
          /\ last.outcome = "GenerationException"
          /\ last.method = ""
          /\ last.candidate = <<>>
          /\ (~ InspectionFaults(last.object) =>
                last.error = "GenerationException: no public callables"))

\* The selector chose the class C, whose only public member is m, and
\* returned m.
C16_Witness ==
    /\ SelectorReturned
    /\ last.object = "C"
    /\ last.method = "m"

\* The p-th test case sampled in the last loop body
Sampled(p) == test_cases[last.tests[p]]

\* The number of statements of the first n sampled test cases
RECURSIVE StatementCount(_)
StatementCount(n) ==
    IF n = 0 THEN 0 ELSE StatementCount(n - 1) + Len(Sampled(n))

\* copy is statement original moved back by offset positions: the same
\* callable and the same arguments, its references to earlier statements
\* pointing offset positions further.
CopyOf(copy, original, offset) ==
    /\ copy.op = original.op
    /\ DOMAIN copy.args = DOMAIN original.args
    /\ \A a \in DOMAIN original.args :
          IF original.args[a].kind = "ref"
          THEN /\ copy.args[a].kind = "ref"
               /\ copy.args[a].idx = original.args[a].idx + offset
          ELSE copy.args[a] = original.args[a]

CandidateIsConcatenation ==
    /\ Len(last.candidate) = StatementCount(Len(last.tests)) + 1
    /\ \A p \in DOMAIN last.tests :
       \A i \in DOMAIN Sampled(p) :
          CopyOf(last.candidate[StatementCount(p - 1) + i], Sampled(p)[i],
                 StatementCount(p - 1))
    /\ last.candidate[Len(last.candidate)].op = last.method
    /\ Len(last.candidate[Len(last.candidate)].args)
          = Len(signature(last.method))

\* C17: the candidate is the statements of the sampled test cases, in the
\* order sampled and each in its own order, followed by one new statement
\* that calls the selected method; its length is the sum of the lengths of the
\* sampled test cases plus one and the new statement is the last one.
C17_CandidateIsConcatenation == SelectorReturned => CandidateIsConcatenation

\* Two different test cases were sampled and a third statement was added.
C17_Witness ==
    /\ last.outcome = "executed"
    /\ Len(last.tests) = 2
    /\ Sampled(1) # Sampled(2)
    /\ Len(last.candidate) = 3

\* The number of test cases in the two pools
PoolSize == Len(test_cases) + Len(failing_test_cases)

\* The counter is the number of times the while condition of line 70 held;
\* at "Body" the condition has just held and line 72, the first statement of
\* the body, has yet to count it.
CounterIsIterationsStarted ==
    IF pc = "Body"
    THEN execution_counter + 1 = iterations_started
    ELSE execution_counter = iterations_started

PoolSizeStep ==
    /\ PoolSize' \in {PoolSize, PoolSize + 1}
    /\ (PoolSize' # PoolSize => BodyStep)

\* C18: the iteration counter is the number of iterations started and is at
\* least the number of test cases in the two pools together; one iteration
\* adds at most one test case to the two pools together.
C18_CounterBoundsPools ==
    /\ [](CounterIsIterationsStarted /\ execution_counter >= PoolSize)
    /\ [][PoolSizeStep]_vars

\* Three iterations have run; two added a test case and one added none.
C18_Witness ==
    /\ pc = "Check"
    /\ iterations_started = 3
    /\ execution_counter = 3
    /\ PoolSize = 2
    /\ last.outcome \in {"duplicate", "GenerationException"}

\* The longest test case the two caps allow: max_sequences_combined sampled
\* test cases of fewer than max_sequence_length statements and one new
\* statement.
LongestAllowed == max_sequences_combined * (max_sequence_length - 1) + 1

\* C19: with max_sequence_length = L > 0 and max_sequences_combined = K > 0
\* every test case in either pool has at most K * (L - 1) + 1 statements; the
\* length cap applies to the test cases that are sampled, so a test case in a
\* pool may have L statements or more.
C19_LengthBound ==
    (max_sequence_length > 0 /\ max_sequences_combined > 0) =>
        \A k \in DOMAIN AllPools : Len(AllPools[k]) <= LongestAllowed

\* A pool holds a test case longer than max_sequence_length, of the longest
\* length allowed.
C19_Witness ==
    /\ max_sequence_length > 0
    /\ max_sequences_combined > 0
    /\ \E k \in DOMAIN AllPools :
          /\ Len(AllPools[k]) > max_sequence_length
          /\ Len(AllPools[k]) = LongestAllowed

====
